---- MODULE Spec2Model ----
(***************************************************************************)
(* The license server of src/index.js: an Express application whose        *)
(* handlers read and write one MongoDB collection (License) through        *)
(* Mongoose.  A handler is asynchronous: it runs synchronously up to each  *)
(* await, and the store call it awaits executes at the database at some    *)
(* later instant.  The steps of the model are the instants at which the    *)
(* database executes a call:                                               *)
(*   XFind   the request arrives, its first call (License.findOne)         *)
(*           executes, and the continuation after the await runs: it       *)
(*           answers, or edits the loaded document and calls save();       *)
(*   XSave   the update (or insert) sent by save() executes and the        *)
(*           handler answers.                                              *)
(* The synchronous code between two calls touches no shared state except   *)
(* the clock, so it is part of the step of the call before it; the calls   *)
(* of different requests interleave freely.                                *)
(*                                                                         *)
(* A Mongoose document remembers which paths were modified in memory;      *)
(* save() of a loaded document sends an update of those paths only,        *)
(* filtered by _id (and by __v when an array was overwritten), and throws  *)
(* when the update matches no document.                                    *)
(***************************************************************************)
EXTENDS Integers, Sequences, FiniteSets, TLC

\* ---- bounds of the model ----
MaxKeys == 1
MaxDevices == 2
MaxProcs == 2
MaxTime == 2
MaxDocs == 2
MaxVersion == 3

Keys == 1..MaxKeys
Devices == 1..MaxDevices
Procs == 1..MaxProcs

\* ---- values of the program ----
Absent == 0
NoEmail == ""
Emails == {"a@x.com"}
NoType == "undefined"
DefaultType == "sender"
Types == {"sender", "receiver"}
NoDate == 0
NoVersion == -1
Null == [id |-> 0]

VARIABLES License, nextId, now, pc, req, call, resp

vars == <<License, nextId, now, pc, req, call, resp>>

\* ---- requests and responses ----
\* at is the instant of new Date() in a request that reaches it
NoReq == [op |-> "none", licenseKey |-> Absent, deviceId |-> Absent, type |-> NoType,
          email |-> NoEmail, resetDevices |-> FALSE, at |-> NoDate]

NoResp == [op |-> "none", status |-> 0, success |-> FALSE, message |-> ""]

Json(o, status, success, message) ==
    [op |-> o, status |-> status, success |-> success, message |-> message]

\* (mutant: the catch block answers as if the request had succeeded)
ServerErrorSwallowed(o) == Json(o, 200, TRUE, "")

\* the message of a handler's catch block
ServerError(o) ==
    CASE o = "validate" -> Json(o, 500, FALSE, "Server error")
      [] o = "generate" -> Json(o, 500, FALSE, "Error creating license")
      [] o = "delete" -> Json(o, 500, FALSE, "Error deleting license")
      [] o = "revoke" -> Json(o, 500, FALSE, "Error revoking license")
      [] o = "reactivate" -> Json(o, 500, FALSE, "Server error")
      [] o = "summary" -> Json(o, 500, FALSE, "Error generating summary")
      [] o = "list" -> Json(o, 500, FALSE, "Error fetching licenses")

\* ---- the schema ----
\* (mutant: valid defaults to false)
licenseSchemaInvalid(licenseKey, type, email) ==
    [id |-> 0, licenseKey |-> licenseKey, type |-> type, email |-> email,
     valid |-> FALSE, deviceId |-> <<>>, lastUsed |-> NoDate, version |-> 0]

licenseSchema(licenseKey, type, email) ==
    [id |-> 0, licenseKey |-> licenseKey, type |-> type, email |-> email,
     valid |-> TRUE, deviceId |-> <<>>, lastUsed |-> NoDate, version |-> 0]

\* ---- Mongoose documents ----
\* the possible results of License.findOne({ licenseKey })
findOne(key) ==
    IF \E d \in License : d.licenseKey = key
    THEN {d \in License : d.licenseKey = key}
    ELSE {Null}

\* a loaded document, with its change tracking
Hydrate(d) ==
    [id |-> d.id, licenseKey |-> d.licenseKey, type |-> d.type, email |-> d.email,
     valid |-> d.valid, deviceId |-> d.deviceId, lastUsed |-> d.lastUsed,
     version |-> d.version, modified |-> {}, pushed |-> <<>>]

\* (mutant: valid is not assigned)
SetValidSkipped(m, b) == m

\* license.valid = b
SetValid(m, b) ==
    IF m.valid = b THEN m
    ELSE [m EXCEPT !.valid = b, !.modified = @ \cup {"valid"}]

\* (mutant: lastUsed is not assigned)
SetLastUsedSkipped(m, t) == m

\* license.lastUsed = t
SetLastUsed(m, t) ==
    IF m.lastUsed = t THEN m
    ELSE [m EXCEPT !.lastUsed = t, !.modified = @ \cup {"lastUsed"}]

\* (mutant: the device list is not cleared)
SetDeviceIdSkipped(m, arr) == m

\* license.deviceId = arr
SetDeviceId(m, arr) ==
    IF m.deviceId = arr THEN m
    ELSE [m EXCEPT !.deviceId = arr, !.modified = @ \cup {"deviceId"}, !.pushed = <<>>]

\* license.deviceId.push(d)
Push(m, d) ==
    [m EXCEPT !.deviceId = Append(@, d),
              !.pushed = IF "deviceId" \in m.modified THEN <<>> ELSE Append(@, d)]

\* license.deviceId.includes(d)
Includes(arr, d) == \E i \in 1..Len(arr) : arr[i] = d

\* (mutant: save() writes the whole document back)
DeltaWholeDocument(m) ==
    [kind |-> "update",
     id |-> m.id,
     version |-> NoVersion,
     valid |-> <<m.valid>>,
     lastUsed |-> <<m.lastUsed>>,
     deviceId |-> <<m.deviceId>>,
     push |-> <<>>,
     inc |-> FALSE]

\* (mutant: save() writes valid back whether it was modified or not)
DeltaWithValid(m) ==
    [kind |-> "update",
     id |-> m.id,
     version |-> IF "deviceId" \in m.modified THEN m.version ELSE NoVersion,
     valid |-> <<m.valid>>,
     lastUsed |-> IF "lastUsed" \in m.modified THEN <<m.lastUsed>> ELSE <<>>,
     deviceId |-> IF "deviceId" \in m.modified THEN <<m.deviceId>> ELSE <<>>,
     push |-> m.pushed,
     inc |-> "deviceId" \in m.modified \/ m.pushed # <<>>]

\* the update that license.save() sends for the loaded document m: $set of the
\* modified paths, $push of the pushed elements, $inc of __v when the array
\* changed, filtered by _id and, when the array was overwritten, by __v
Delta(m) ==
    [kind |-> "update",
     id |-> m.id,
     version |-> IF "deviceId" \in m.modified THEN m.version ELSE NoVersion,
     valid |-> IF "valid" \in m.modified THEN <<m.valid>> ELSE <<>>,
     lastUsed |-> IF "lastUsed" \in m.modified THEN <<m.lastUsed>> ELSE <<>>,
     deviceId |-> IF "deviceId" \in m.modified THEN <<m.deviceId>> ELSE <<>>,
     push |-> m.pushed,
     inc |-> "deviceId" \in m.modified \/ m.pushed # <<>>]

\* the insert that newLicense.save() sends
Insert(doc) == [kind |-> "insert", doc |-> doc]

IsEmpty(u) == u.valid = <<>> /\ u.lastUsed = <<>> /\ u.deviceId = <<>> /\ u.push = <<>>

\* ---- the database ----
\* the documents an update matches
Matched(u) ==
    {d \in License : d.id = u.id /\ (u.version # NoVersion => d.version = u.version)}

\* (mutant: an update also stamps the default type on the document)
UpdatedStampsType(d, u) ==
    [d EXCEPT !.valid = IF u.valid # <<>> THEN u.valid[1] ELSE @,
              !.lastUsed = IF u.lastUsed # <<>> THEN u.lastUsed[1] ELSE @,
              !.deviceId = IF u.deviceId # <<>> THEN u.deviceId[1] ELSE @ \o u.push,
              !.version = IF u.inc THEN @ + 1 ELSE @,
              !.type = DefaultType]

\* the update u applied to the stored document d
Updated(d, u) ==
    [d EXCEPT !.valid = IF u.valid # <<>> THEN u.valid[1] ELSE @,
              !.lastUsed = IF u.lastUsed # <<>> THEN u.lastUsed[1] ELSE @,
              !.deviceId = IF u.deviceId # <<>> THEN u.deviceId[1] ELSE @ \o u.push,
              !.version = IF u.inc THEN @ + 1 ELSE @]

\* the collection after the update u
updateOne(u) ==
    {IF d \in Matched(u) THEN Updated(d, u) ELSE d : d \in License}

\* the unique index on licenseKey rejects the insert of a duplicate
DuplicateKey(doc) == \E d \in License : d.licenseKey = doc.licenseKey

\* ---- the clock ----
Tick ==
    /\ now < MaxTime
    /\ now' = now + 1
    /\ UNCHANGED <<License, nextId, pc, req, call, resp>>

\* ---- shared steps ----
\* res.status(...).json(...): the request is over
Respond(p, r) ==
    /\ pc' = [pc EXCEPT ![p] = "idle"]
    /\ resp' = [resp EXCEPT ![p] = r]
    /\ req' = [req EXCEPT ![p] = NoReq]
    /\ call' = [call EXCEPT ![p] = Null]

\* await of a store call c; the handler resumes at label
Await(p, label, r, c) ==
    /\ pc' = [pc EXCEPT ![p] = label]
    /\ req' = [req EXCEPT ![p] = r]
    /\ call' = [call EXCEPT ![p] = c]
    /\ resp' = [resp EXCEPT ![p] = NoResp]

\* (mutant: an update that matches no document inserts one)
SaveLoadedUpserts(p, ok) ==
    LET u == call[p]
    IN  IF ~IsEmpty(u)
        THEN IF Matched(u) = {}
             THEN /\ License' = License \cup
                        {Updated([licenseSchema(req[p].licenseKey, NoType, NoEmail)
                                     EXCEPT !.id = u.id], [u EXCEPT !.inc = FALSE])}
                  /\ Respond(p, ok)
             ELSE /\ u.inc => \A d \in Matched(u) : d.version < MaxVersion
                  /\ License' = updateOne(u)
                  /\ Respond(p, ok)
        ELSE /\ UNCHANGED License
             /\ Respond(p, ok)

\* the database executes the update of license.save() and the handler answers
\* ok, or save() throws (no document matched) and the catch block answers.
\* With nothing modified no update is sent; whether save() then notices that
\* the document is gone depends on the Mongoose release.
SaveLoaded(p, ok) ==
    LET u == call[p]
    IN  IF ~IsEmpty(u)
        THEN IF Matched(u) = {}
             THEN /\ Respond(p, ServerError(req[p].op))
                  /\ UNCHANGED License
             ELSE /\ u.inc => \A d \in Matched(u) : d.version < MaxVersion
                  /\ License' = updateOne(u)
                  /\ Respond(p, ok)
        ELSE /\ UNCHANGED License
             /\ \/ Respond(p, ok)
                \/ /\ \A d \in License : d.id # u.id
                   /\ Respond(p, ServerError(req[p].op))

\* ---- POST /validate ----
\* (mutant: no default type)
QueryTypeAsGiven(type) == type

\* req.query.type || "sender"
QueryType(type) == IF type = NoType THEN DefaultType ELSE type

\* (mutant: the valid flag is not checked)
IsInvalidOnlyNull(d) == d = Null

\* !license || !license.valid
IsInvalid(d) == d = Null \/ ~d.valid

\* license.type !== type
TypeMismatch(d, type) == d.type # type

\* (mutant: no limit on the devices)
LimitExceededNever(d) == FALSE

\* (mutant: two devices allowed)
LimitExceededAtTwo(d) == Len(d.deviceId) >= 2

\* license.deviceId.length >= 1
LimitExceeded(d) == Len(d.deviceId) >= 1

\* (mutant: the type is checked before the valid flag)
ValidateFindTypeFirst(p, licenseKey, deviceId, type) ==
    /\ pc[p] = "idle"
    /\ LET r == [NoReq EXCEPT !.op = "validate", !.licenseKey = licenseKey,
                              !.deviceId = deviceId, !.type = QueryType(type)]
       IN  IF licenseKey = Absent \/ deviceId = Absent
           THEN Respond(p, Json("validate", 400, FALSE, "Missing fields"))
           ELSE \E d \in findOne(licenseKey) :
                  IF d = Null
                  THEN Respond(p, Json("validate", 403, FALSE, "Invalid license"))
                  ELSE IF TypeMismatch(d, r.type)
                  THEN Respond(p, Json("validate", 403, FALSE, "License type mismatch"))
                  ELSE IF IsInvalid(d)
                  THEN Respond(p, Json("validate", 403, FALSE, "Invalid license"))
                  ELSE IF ~Includes(d.deviceId, deviceId)
                  THEN IF LimitExceeded(d)
                       THEN Await(p, "saveRevoked", r, Delta(SetValid(Hydrate(d), FALSE)))
                       ELSE \E t \in now..MaxTime :
                              Await(p, "save", [r EXCEPT !.at = t],
                                    Delta(SetLastUsed(Push(Hydrate(d), deviceId), t)))
                  ELSE \E t \in now..MaxTime :
                         Await(p, "save", [r EXCEPT !.at = t],
                               Delta(SetLastUsed(Hydrate(d), t)))
    /\ UNCHANGED <<License, nextId, now>>

\* new Date() is evaluated between the two store calls of the request: the
\* step chooses that instant, and the save waits for the clock to reach it
ValidateFind(p, licenseKey, deviceId, type) ==
    /\ pc[p] = "idle"
    /\ LET r == [NoReq EXCEPT !.op = "validate", !.licenseKey = licenseKey,
                              !.deviceId = deviceId, !.type = QueryType(type)]
       IN  IF licenseKey = Absent \/ deviceId = Absent
           THEN Respond(p, Json("validate", 400, FALSE, "Missing fields"))
           ELSE \E d \in findOne(licenseKey) :
                  IF IsInvalid(d)
                  THEN Respond(p, Json("validate", 403, FALSE, "Invalid license"))
                  ELSE IF TypeMismatch(d, r.type)
                  THEN Respond(p, Json("validate", 403, FALSE, "License type mismatch"))
                  ELSE IF ~Includes(d.deviceId, deviceId)
                  THEN IF LimitExceeded(d)
                       THEN Await(p, "saveRevoked", r, Delta(SetValid(Hydrate(d), FALSE)))
                       ELSE \E t \in now..MaxTime :
                              Await(p, "save", [r EXCEPT !.at = t],
                                    Delta(SetLastUsed(Push(Hydrate(d), deviceId), t)))
                  ELSE \E t \in now..MaxTime :
                         Await(p, "save", [r EXCEPT !.at = t],
                               Delta(SetLastUsed(Hydrate(d), t)))
    /\ UNCHANGED <<License, nextId, now>>

ValidateSaveRevoked(p) ==
    /\ pc[p] = "saveRevoked"
    /\ req[p].op = "validate"
    /\ SaveLoaded(p, Json("validate", 403, FALSE, "License revoked: used on multiple devices."))
    /\ UNCHANGED <<nextId, now>>

ValidateSave(p) ==
    /\ pc[p] = "save"
    /\ req[p].op = "validate"
    /\ req[p].at <= now
    /\ SaveLoaded(p, Json("validate", 200, TRUE, "License validated successfully"))
    /\ UNCHANGED <<nextId, now>>

\* ---- POST /generate ----
GenerateFind(p, email, licenseKey, type) ==
    /\ pc[p] = "idle"
    /\ LET r == [NoReq EXCEPT !.op = "generate", !.licenseKey = licenseKey,
                              !.email = email, !.type = type]
       IN  IF email = NoEmail \/ licenseKey = Absent
           THEN Respond(p, Json("generate", 400, FALSE, "Missing fields"))
           ELSE \E existing \in findOne(licenseKey) :
                  IF existing # Null
                  THEN Respond(p, Json("generate", 409, FALSE, "License already exists"))
                  ELSE Await(p, "save", r, Insert(licenseSchema(licenseKey, type, email)))
    /\ UNCHANGED <<License, nextId, now>>

\* the database executes the insert; documents are numbered as they are stored
GenerateSave(p) ==
    /\ pc[p] = "save"
    /\ req[p].op = "generate"
    /\ IF DuplicateKey(call[p].doc)
       THEN /\ Respond(p, ServerError("generate"))
            /\ UNCHANGED <<License, nextId>>
       ELSE /\ nextId <= MaxDocs
            /\ License' = License \cup {[call[p].doc EXCEPT !.id = nextId]}
            /\ nextId' = nextId + 1
            /\ Respond(p, Json("generate", 200, TRUE, "License created"))
    /\ UNCHANGED now

\* ---- POST /licenses/delete ----
\* (mutant: the record is looked up but not removed)
DeleteKeepsRecord(p, licenseKey) ==
    /\ pc[p] = "idle"
    /\ IF licenseKey = Absent
       THEN Respond(p, Json("delete", 400, FALSE, "Missing license key"))
       ELSE \E deleted \in findOne(licenseKey) :
              IF deleted = Null
              THEN Respond(p, Json("delete", 404, FALSE, "License not found"))
              ELSE Respond(p, Json("delete", 200, TRUE, "License deleted successfully"))
    /\ UNCHANGED <<License, nextId, now>>

\* License.findOneAndDelete({ licenseKey }) is one call
Delete(p, licenseKey) ==
    /\ pc[p] = "idle"
    /\ IF licenseKey = Absent
       THEN /\ Respond(p, Json("delete", 400, FALSE, "Missing license key"))
            /\ UNCHANGED License
       ELSE \E deleted \in findOne(licenseKey) :
              IF deleted = Null
              THEN /\ Respond(p, Json("delete", 404, FALSE, "License not found"))
                   /\ UNCHANGED License
              ELSE /\ License' = License \ {deleted}
                   /\ Respond(p, Json("delete", 200, TRUE, "License deleted successfully"))
    /\ UNCHANGED <<nextId, now>>

\* ---- POST /licenses/revoke ----
RevokeFind(p, licenseKey) ==
    /\ pc[p] = "idle"
    /\ LET r == [NoReq EXCEPT !.op = "revoke", !.licenseKey = licenseKey]
       IN  IF licenseKey = Absent
           THEN Respond(p, Json("revoke", 400, FALSE, "Missing license key"))
           ELSE \E d \in findOne(licenseKey) :
                  IF d = Null
                  THEN Respond(p, Json("revoke", 404, FALSE, "License not found"))
                  ELSE IF ~d.valid
                  THEN Respond(p, Json("revoke", 400, FALSE, "License is already revoked"))
                  ELSE Await(p, "save", r, Delta(SetValid(Hydrate(d), FALSE)))
    /\ UNCHANGED <<License, nextId, now>>

RevokeSave(p) ==
    /\ pc[p] = "save"
    /\ req[p].op = "revoke"
    /\ SaveLoaded(p, Json("revoke", 200, TRUE, "License revoked successfully"))
    /\ UNCHANGED <<nextId, now>>

\* ---- POST /licenses/reactivate ----
ReactivateFind(p, licenseKey, resetDevices) ==
    /\ pc[p] = "idle"
    /\ LET r == [NoReq EXCEPT !.op = "reactivate", !.licenseKey = licenseKey,
                              !.resetDevices = resetDevices]
       IN  IF licenseKey = Absent
           THEN Respond(p, Json("reactivate", 400, FALSE, "Missing licenseKey"))
           ELSE \E d \in findOne(licenseKey) :
                  IF d = Null
                  THEN Respond(p, Json("reactivate", 404, FALSE, "License not found"))
                  ELSE Await(p, "save", r,
                             Delta(IF resetDevices
                                   THEN SetDeviceId(SetValid(Hydrate(d), TRUE), <<>>)
                                   ELSE SetValid(Hydrate(d), TRUE)))
    /\ UNCHANGED <<License, nextId, now>>

ReactivateSave(p) ==
    /\ pc[p] = "save"
    /\ req[p].op = "reactivate"
    /\ SaveLoaded(p, Json("reactivate", 200, TRUE, "License reactivated successfully"))
    /\ UNCHANGED <<nextId, now>>

\* ---- GET /licenses/summary ----
\* (mutant: the filter of the count is ignored)
countDocumentsUnfiltered(valids) == Cardinality(License)

\* License.countDocuments(filter), the filter being on valid: no filter is
\* BOOLEAN, { valid: true } is {TRUE}, { valid: false } is {FALSE}
countDocuments(valids) == Cardinality({d \in License : d.valid \in valids})

\* the counts awaited so far
NoCounts == [kind |-> "count", totalLicenses |-> 0, activeLicenses |-> 0]

\* res.json({ totalLicenses, activeLicenses, revokedLicenses })
Summary(total, active, revoked) ==
    [op |-> "summary", status |-> 200, totalLicenses |-> total,
     activeLicenses |-> active, revokedLicenses |-> revoked]

\* the first count executes
SummaryTotal(p) ==
    /\ pc[p] = "idle"
    /\ Await(p, "countActive", [NoReq EXCEPT !.op = "summary"],
             [NoCounts EXCEPT !.totalLicenses = countDocuments(BOOLEAN)])
    /\ UNCHANGED <<License, nextId, now>>

\* the second count executes
SummaryActive(p) ==
    /\ pc[p] = "countActive"
    /\ Await(p, "countRevoked", req[p],
             [call[p] EXCEPT !.activeLicenses = countDocuments({TRUE})])
    /\ UNCHANGED <<License, nextId, now>>

\* the third count executes and the handler answers
SummaryRevoked(p) ==
    /\ pc[p] = "countRevoked"
    /\ Respond(p, Summary(call[p].totalLicenses, call[p].activeLicenses,
                          countDocuments({FALSE})))
    /\ UNCHANGED <<License, nextId, now>>

\* ---- GET /licenses/:type ----
\* the sequences that hold every document of S once, by lastUsed descending;
\* the order among equal (or unset) lastUsed is the store's
SortedByLastUsed(S) ==
    {s \in [1..Cardinality(S) -> S] :
        /\ \A d \in S : \E i \in 1..Cardinality(S) : s[i] = d
        /\ \A i, j \in 1..Cardinality(S) : i < j => s[i].lastUsed >= s[j].lastUsed}

\* License.find({ type }).sort({ lastUsed: -1 }) is one call
List(p, type) ==
    /\ pc[p] = "idle"
    /\ \E licenses \in SortedByLastUsed({d \in License : d.type = type}) :
          Respond(p, [op |-> "list", status |-> 200, licenses |-> licenses])
    /\ UNCHANGED <<License, nextId, now>>

\* ---- a store call fails ----
\* the first call of a request (findOne, findOneAndDelete) rejects: the catch
\* block answers
FindError(p, o) ==
    /\ pc[p] = "idle"
    /\ Respond(p, ServerError(o))
    /\ UNCHANGED <<License, nextId, now>>

\* the awaited save() rejects without having taken effect
SaveError(p) ==
    /\ pc[p] \in {"save", "saveRevoked"}
    /\ Respond(p, ServerError(req[p].op))
    /\ UNCHANGED <<License, nextId, now>>

\* an awaited count rejects
CountError(p) ==
    /\ pc[p] \in {"countActive", "countRevoked"}
    /\ Respond(p, ServerError(req[p].op))
    /\ UNCHANGED <<License, nextId, now>>

\* ---- the system ----
\* the bodies of the requests: every well-formed one, and the ones with a
\* missing field
ValidateBodies ==
    (Keys \X Devices) \cup {<<Absent, 1>>, <<1, Absent>>, <<Absent, Absent>>}

GenerateBodies ==
    (Emails \X Keys) \cup {<<NoEmail, 1>>, <<"a@x.com", Absent>>, <<NoEmail, Absent>>}

QueryTypes == Types \cup {NoType}

\* the types of the licenses issued where every interleaving is explored
IssuedTypes == {DefaultType, NoType}

Ops == {"validate", "generate", "delete", "revoke", "reactivate"}

Init ==
    /\ License = {}
    /\ nextId = 1
    /\ now = 1
    /\ pc = [p \in Procs |-> "idle"]
    /\ req = [p \in Procs |-> NoReq]
    /\ call = [p \in Procs |-> Null]
    /\ resp = [p \in Procs |-> NoResp]

Next ==
    \/ Tick
    \/ \E p \in Procs :
          \/ \E b \in ValidateBodies, ty \in QueryTypes : ValidateFind(p, b[1], b[2], ty)
          \/ ValidateSaveRevoked(p)
          \/ ValidateSave(p)
          \/ \E b \in GenerateBodies, ty \in IssuedTypes : GenerateFind(p, b[1], b[2], ty)
          \/ GenerateSave(p)
          \/ \E k \in Keys \cup {Absent} : Delete(p, k)
          \/ \E k \in Keys \cup {Absent} : RevokeFind(p, k)
          \/ RevokeSave(p)
          \/ \E k \in Keys \cup {Absent}, r \in BOOLEAN : ReactivateFind(p, k, r)
          \/ ReactivateSave(p)
          \/ \E o \in Ops : FindError(p, o)
          \/ SaveError(p)

Spec == Init /\ [][Next]_vars

TypeOK ==
    /\ nextId \in 1..(MaxDocs + 1)
    /\ now \in 1..MaxTime
    /\ \A d \in License : d.version \in 0..MaxVersion /\ d.lastUsed \in 0..MaxTime


\* ---- the requests one after the other ----
\* no request is received while another one is being handled
Alone(p) == \A q \in Procs \ {p} : pc[q] = "idle"

NextAtomic ==
    \/ Tick
    \/ \E p \in Procs :
          \/ \E b \in ValidateBodies, ty \in QueryTypes :
                Alone(p) /\ ValidateFind(p, b[1], b[2], ty)
          \/ Alone(p) /\ ValidateSaveRevoked(p)
          \/ Alone(p) /\ ValidateSave(p)
          \/ \E b \in GenerateBodies, ty \in QueryTypes :
                Alone(p) /\ GenerateFind(p, b[1], b[2], ty)
          \/ Alone(p) /\ GenerateSave(p)
          \/ \E k \in Keys \cup {Absent} : Alone(p) /\ Delete(p, k)
          \/ \E k \in Keys \cup {Absent} : Alone(p) /\ RevokeFind(p, k)
          \/ Alone(p) /\ RevokeSave(p)
          \/ \E k \in Keys \cup {Absent}, r \in BOOLEAN :
                Alone(p) /\ ReactivateFind(p, k, r)
          \/ Alone(p) /\ ReactivateSave(p)
          \/ \E o \in Ops : Alone(p) /\ FindError(p, o)
          \/ Alone(p) /\ SaveError(p)

SpecAtomic == Init /\ [][NextAtomic]_vars

\* ---- every operation, every store call answered ----
\* the requests of one instant (the clock stands still) on licenses of one
\* type: every operation, and the store answers every call, with a result
\* or with an error
ReadOps == {"summary", "list"}

\* the store call that slot p awaits completes: it executes, or it rejects
Settle(p) ==
    \/ ValidateSaveRevoked(p)
    \/ ValidateSave(p)
    \/ GenerateSave(p)
    \/ RevokeSave(p)
    \/ ReactivateSave(p)
    \/ SummaryActive(p)
    \/ SummaryRevoked(p)
    \/ SaveError(p)
    \/ CountError(p)

NextAll ==
    \/ \E p \in Procs :
          \/ \E b \in ValidateBodies, ty \in QueryTypes : ValidateFind(p, b[1], b[2], ty)
          \/ ValidateSaveRevoked(p)
          \/ ValidateSave(p)
          \/ \E b \in GenerateBodies : GenerateFind(p, b[1], b[2], DefaultType)
          \/ GenerateSave(p)
          \/ \E k \in Keys \cup {Absent} : Delete(p, k)
          \/ \E k \in Keys \cup {Absent} : RevokeFind(p, k)
          \/ RevokeSave(p)
          \/ \E k \in Keys \cup {Absent}, r \in BOOLEAN : ReactivateFind(p, k, r)
          \/ ReactivateSave(p)
          \/ SummaryTotal(p)
          \/ SummaryActive(p)
          \/ SummaryRevoked(p)
          \/ \E ty \in QueryTypes : List(p, ty)
          \/ \E o \in Ops \cup ReadOps : FindError(p, o)
          \/ SaveError(p)
          \/ CountError(p)

SpecAll == Init /\ [][NextAll]_vars /\ \A p \in Procs : WF_vars(Settle(p))

\* ---- Summarize with no write between its counts ----
\* licenses of several keys (as many as documents can be stored) and of one
\* type, the clock standing still and no store call failing; a write
\* executes only while no Summarize is between two of its counts
SummaryKeys == 1..MaxDocs

Counting == \E q \in Procs : pc[q] \in {"countActive", "countRevoked"}

NextSummary ==
    \E p \in Procs :
       \/ \E k \in SummaryKeys, d \in Devices : ValidateFind(p, k, d, NoType)
       \/ ~Counting /\ ValidateSaveRevoked(p)
       \/ ~Counting /\ ValidateSave(p)
       \/ \E k \in SummaryKeys : GenerateFind(p, "a@x.com", k, DefaultType)
       \/ ~Counting /\ GenerateSave(p)
       \/ \E k \in SummaryKeys : ~Counting /\ Delete(p, k)
       \/ \E k \in SummaryKeys : RevokeFind(p, k)
       \/ ~Counting /\ RevokeSave(p)
       \/ \E k \in SummaryKeys, r \in BOOLEAN : ReactivateFind(p, k, r)
       \/ ~Counting /\ ReactivateSave(p)
       \/ SummaryTotal(p)
       \/ SummaryActive(p)
       \/ SummaryRevoked(p)

SpecSummary == Init /\ [][NextSummary]_vars

\* ---- after a revocation, with no Reactivate ----
\* the license of key 1 was issued, bound to device 1 and revoked by a
\* Validate from device 2; every request but Reactivate follows
\* the key of the scenarios
TheKey == CHOOSE k \in Keys : \A j \in Keys : k <= j

InitRevoked ==
    /\ License = {[licenseSchema(TheKey, DefaultType, "a@x.com") EXCEPT
                      !.id = 1, !.valid = FALSE, !.deviceId = <<1>>,
                      !.lastUsed = 1, !.version = 1]}
    /\ nextId = 2
    /\ now = 1
    /\ pc = [p \in Procs |-> "idle"]
    /\ req = [p \in Procs |-> NoReq]
    /\ call = [p \in Procs |-> Null]
    /\ resp = [p \in Procs |-> NoResp]

NextRevoked ==
    \/ Tick
    \/ \E p \in Procs :
          \/ \E b \in ValidateBodies, ty \in QueryTypes : ValidateFind(p, b[1], b[2], ty)
          \/ ValidateSaveRevoked(p)
          \/ ValidateSave(p)
          \/ \E b \in GenerateBodies, ty \in IssuedTypes : GenerateFind(p, b[1], b[2], ty)
          \/ GenerateSave(p)
          \/ \E k \in Keys \cup {Absent} : Delete(p, k)
          \/ \E k \in Keys \cup {Absent} : RevokeFind(p, k)
          \/ RevokeSave(p)
          \/ \E o \in Ops \ {"reactivate"} : FindError(p, o)
          \/ SaveError(p)

SpecRevoked == InitRevoked /\ [][NextRevoked]_vars

\* ---- N concurrent Validate requests against one fresh license ----
\* the license of key 1 is issued; then every slot sends one Validate, slot p
\* from device p, and nothing else is requested

NextValidateRace ==
    \/ Tick
    \/ \E p \in Procs :
          \/ /\ License = {}
             /\ \A q \in Procs : pc[q] = "idle"
             /\ GenerateFind(p, "a@x.com", TheKey, DefaultType)
          \/ GenerateSave(p)
          \/ /\ License # {}
             /\ resp[p].op # "validate"
             /\ ValidateFind(p, TheKey, p, NoType)
          \/ ValidateSaveRevoked(p)
          \/ ValidateSave(p)
          \/ /\ License # {}
             /\ resp[p].op # "validate"
             /\ FindError(p, "validate")
          \/ SaveError(p)

SpecValidateRace == Init /\ [][NextValidateRace]_vars

Successes == {p \in Procs : resp[p].success}

ValidateAllResponded == \A p \in Procs : pc[p] = "idle" /\ resp[p].op = "validate"

NoStoreError == \A p \in Procs : resp[p].status # 500

\* C1: once the N concurrent Validate requests from N distinct devices have
\* all responded (no store call having failed), the record has exactly one
\* bound device, valid = false, and exactly one request was answered with
\* success
C1_OneDeviceBound ==
    ValidateAllResponded /\ NoStoreError =>
        /\ \A d \in License : Len(d.deviceId) = 1 /\ ~d.valid
        /\ Cardinality(Successes) = 1

\* ---- N concurrent Issue requests for one key ----
\* the store is empty; every slot sends one Issue for key 1, and no store
\* call fails
NextIssueRace ==
    \/ Tick
    \/ \E p \in Procs :
          \/ /\ resp[p] = NoResp
             /\ \E e \in Emails, ty \in QueryTypes : GenerateFind(p, e, TheKey, ty)
          \/ GenerateSave(p)

SpecIssueRace == Init /\ [][NextIssueRace]_vars

IssueAllResponded == \A p \in Procs : pc[p] = "idle" /\ resp[p].op = "generate"

\* C10: concurrent Issue requests for one key never leave two records with
\* that key, exactly one of them is answered with success, and every other
\* one with 409
C10_OneIssued ==
    /\ \A d, e \in License : d.licenseKey = e.licenseKey => d = e
    /\ IssueAllResponded =>
          /\ Cardinality(Successes) = 1
          /\ \A p \in Procs \ Successes : resp[p].status = 409

\* ---- claims on every interleaving ----
\* C2: in every reachable state every record with valid = true has at most
\* one bound device
C2_ValidAtMostOneDevice ==
    \A d \in License : d.valid => Len(d.deviceId) <= 1


\* ---- helpers of the claims ----
Present(licenseKey, deviceId) == licenseKey # Absent /\ deviceId # Absent

ByKey(k) == {x \in License : x.licenseKey = k}

ById(i) == {x \in License : x.id = i}

ByIdNext(i) == {y \in License' : y.id = i}

SameRecords == {x.id : x \in License} = {y.id : y \in License'}

InvalidLicense == Json("validate", 403, FALSE, "Invalid license")

Validated == Json("validate", 200, TRUE, "License validated successfully")

\* the step receives a Validate request in slot p
IsValidateFind(p) ==
    /\ pc[p] = "idle"
    /\ resp'[p].op = "validate" \/ req'[p].op = "validate"

\* the step is the save of a Reactivate request for the record i
IsReactivateSave(i) ==
    \E p \in Procs : /\ pc[p] = "save"
                     /\ req[p].op = "reactivate"
                     /\ call[p].id = i
                     /\ pc'[p] = "idle"

\* C4: valid of a stored record changes from false to true only in the save
\* of a Reactivate request
C4_OnlyReactivateRestores ==
    [][\A x \in License : \A y \in ByIdNext(x.id) :
          ~x.valid /\ y.valid => IsReactivateSave(x.id)]_vars

\* a Validate that read the record while it was valid has its save pending,
\* and the record has been revoked since
C4_Witness ==
    \E p \in Procs : /\ pc[p] = "save"
                     /\ req[p].op = "validate"
                     /\ \E x \in ById(call[p].id) : ~x.valid

\* C6: a Validate whose lookup finds no record, or a record with
\* valid = false, is answered 403 'Invalid license' in that step, sends no
\* store write and leaves every record as it was
C6_InvalidNeverWrites ==
    [][\A p \in Procs : IsValidateFind(p) =>
        \A k \in Keys, d \in Devices, ty \in QueryTypes :
          (\A x \in ByKey(k) : ~x.valid) /\ ValidateFind(p, k, d, ty)
          => /\ resp'[p] = InvalidLicense
             /\ pc'[p] = "idle"
             /\ call'[p] = Null
             /\ License' = License]_vars

\* a Validate has been answered 'Invalid license' and the record is revoked
C6_Witness ==
    \E p \in Procs : /\ resp[p] = InvalidLicense
                     /\ \E x \in License : ~x.valid /\ x.deviceId # <<>>

Revoked403 == Json("validate", 403, FALSE, "License revoked: used on multiple devices.")

\* the update of the revoking request: $set valid = false and nothing else
RevokingUpdate(u, i) ==
    /\ u.kind = "update" /\ u.id = i /\ u.valid = <<FALSE>>
    /\ u.lastUsed = <<>> /\ u.deviceId = <<>> /\ u.push = <<>> /\ ~u.inc

\* a Validate from a device other than the bound one, with a matching type,
\* on a valid record: it sends the revoking update and nothing else, and when
\* that update is applied the request is answered 403, valid is false, and
\* the bound devices and lastUsed are as they were
RevokesOnSecondDevice ==
    /\ \A p \in Procs : IsValidateFind(p) =>
          \A k \in Keys, d \in Devices, ty \in QueryTypes :
             ValidateFind(p, k, d, ty)
             => \A x \in ByKey(k) :
                   /\ x.valid /\ x.type = QueryType(ty)
                   /\ x.deviceId # <<>> /\ ~Includes(x.deviceId, d)
                   => /\ pc'[p] = "saveRevoked"
                      /\ RevokingUpdate(call'[p], x.id)
                      /\ License' = License
    /\ \A p \in Procs :
          pc[p] = "saveRevoked" /\ pc'[p] = "idle" /\ resp'[p].status # 500
          => /\ resp'[p] = Revoked403
             /\ SameRecords
             /\ \A x \in License :
                   ByIdNext(x.id) = {IF x.id = call[p].id
                                     THEN [x EXCEPT !.valid = FALSE] ELSE x}

\* C3 as stated: ... and from then on, with no Reactivate, every Validate for
\* that key fails with 403
C3_RevokedForGood ==
    [][/\ RevokesOnSecondDevice
       /\ \A p \in Procs : IsValidateFind(p) =>
             \A d \in Devices, ty \in QueryTypes :
                ValidateFind(p, TheKey, d, ty) => resp'[p].status = 403]_vars

\* C3 as amended: ... and from then on, as long as that record is stored and
\* with no Reactivate, the record stays revoked and every Validate for its key
\* fails with 403 'Invalid license' without a write
C3_RevokedWhileStored ==
    [][/\ RevokesOnSecondDevice
       /\ \A x \in License : ~x.valid => \A y \in ByIdNext(x.id) : ~y.valid
       /\ \A p \in Procs : IsValidateFind(p) =>
             \A k \in Keys, d \in Devices, ty \in QueryTypes :
                (\E x \in ByKey(k) : ~x.valid) /\ ValidateFind(p, k, d, ty)
                => resp'[p] = InvalidLicense /\ License' = License]_vars

\* a license was revoked by a second device, and a later Validate for its key
\* was answered 'Invalid license'
C3_Witness ==
    \E p, q \in Procs :
       /\ resp[p] = Revoked403
       /\ resp[q] = InvalidLicense
       /\ \E x \in License : ~x.valid /\ Len(x.deviceId) = 1

\* ---- C5 ----
\* C5: with the requests one after the other, a Validate from a device in the
\* bound-device list of a valid license (matching type) saves and succeeds;
\* valid stays true, the bound devices stay as they were, and lastUsed is the
\* instant of the request
C5_SameDeviceRevalidates ==
    [][/\ \A p \in Procs : IsValidateFind(p) =>
             \A k \in Keys, d \in Devices, ty \in QueryTypes :
                ValidateFind(p, k, d, ty)
                => \A x \in ByKey(k) :
                      x.valid /\ x.type = QueryType(ty) /\ Includes(x.deviceId, d)
                      => /\ pc'[p] = "save"
                         /\ call'[p].id = x.id
                         /\ req'[p].at >= now
       /\ \A p \in Procs :
             /\ pc[p] = "save" /\ req[p].op = "validate" /\ pc'[p] = "idle"
             /\ resp'[p].status # 500
             => \A x \in ById(call[p].id) :
                   Includes(x.deviceId, req[p].deviceId)
                   => /\ resp'[p] = Validated
                      /\ req[p].at <= now
                      /\ SameRecords
                      /\ ByIdNext(x.id) = {[x EXCEPT !.lastUsed = req[p].at]}
                      /\ \A y \in ByIdNext(x.id) : y.valid]_vars

\* two Validate requests succeeded on a license that was bound once and
\* never reset: one of them came from the device already bound
C5_Witness ==
    /\ \A p \in Procs : resp[p] = Validated
    /\ nextId = 2
    /\ \E x \in License : x.valid /\ x.version = 1 /\ Len(x.deviceId) = 1 /\ x.lastUsed = 2

\* ---- C7 ----
Reactivated == Json("reactivate", 200, TRUE, "License reactivated successfully")

\* C7: with the requests one after the other, Reactivate with resetDevices on
\* a revoked record with a bound device leaves it valid with no bound device,
\* and a Validate (matching type) on a valid record with no bound device
\* succeeds and binds exactly its device
C7_ResetThenBind ==
    [][/\ \A p \in Procs, k \in Keys :
             /\ (\E x \in ByKey(k) : ~x.valid /\ x.deviceId # <<>>)
             /\ ReactivateFind(p, k, TRUE)
             => pc'[p] = "save" /\ req'[p].resetDevices
       /\ \A p \in Procs :
             /\ pc[p] = "save" /\ req[p].op = "reactivate" /\ req[p].resetDevices
             /\ pc'[p] = "idle" /\ resp'[p].status # 500
             => \A x \in ById(call[p].id) :
                   ~x.valid /\ x.deviceId # <<>>
                   => /\ resp'[p] = Reactivated
                      /\ SameRecords
                      /\ \A y \in ByIdNext(x.id) : y.valid /\ y.deviceId = <<>>
       /\ \A p \in Procs : IsValidateFind(p) =>
             \A k \in Keys, d \in Devices, ty \in QueryTypes :
                ValidateFind(p, k, d, ty)
                => \A x \in ByKey(k) :
                      x.valid /\ x.type = QueryType(ty) /\ x.deviceId = <<>>
                      => pc'[p] = "save" /\ call'[p].id = x.id
       /\ \A p \in Procs :
             /\ pc[p] = "save" /\ req[p].op = "validate" /\ pc'[p] = "idle"
             /\ resp'[p].status # 500
             => \A x \in ById(call[p].id) :
                   x.deviceId = <<>>
                   => /\ resp'[p] = Validated
                      /\ \A y \in ByIdNext(x.id) :
                            y.valid /\ y.deviceId = <<req[p].deviceId>>]_vars

\* a license was bound, reset by a Reactivate and bound again by a Validate
C7_Witness ==
    \E p, q \in Procs :
       /\ resp[p] = Reactivated
       /\ resp[q] = Validated
       /\ \E x \in License : x.valid /\ x.version = 3 /\ Len(x.deviceId) = 1

\* ---- C9 ----
IsGenerateFind(p) ==
    /\ pc[p] = "idle"
    /\ resp'[p].op = "generate" \/ req'[p].op = "generate"

\* C9: an Issue with a missing field is answered 400 and one for a key that
\* has a record 409, neither sending a write nor changing a record; the insert
\* of a successful Issue adds one record with the fields of the request,
\* valid, with no bound device and lastUsed unset, and changes no other
C9_IssueCreatesFresh ==
    [][/\ \A p \in Procs : IsGenerateFind(p) =>
             \A b \in GenerateBodies, ty \in QueryTypes :
                GenerateFind(p, b[1], b[2], ty)
                => /\ License' = License
                   /\ b[1] = NoEmail \/ b[2] = Absent
                      => /\ resp'[p] = Json("generate", 400, FALSE, "Missing fields")
                         /\ pc'[p] = "idle" /\ call'[p] = Null
                   /\ b[1] # NoEmail /\ b[2] # Absent /\ ByKey(b[2]) # {}
                      => /\ resp'[p] = Json("generate", 409, FALSE, "License already exists")
                         /\ pc'[p] = "idle" /\ call'[p] = Null
                   /\ b[1] # NoEmail /\ b[2] # Absent /\ ByKey(b[2]) = {}
                      => pc'[p] = "save" /\ call'[p].kind = "insert"
       /\ \A p \in Procs :
             pc[p] = "save" /\ req[p].op = "generate" /\ pc'[p] = "idle"
             => IF resp'[p].success
                THEN /\ resp'[p] = Json("generate", 200, TRUE, "License created")
                     /\ License \subseteq License'
                     /\ \E y \in License' \ License :
                           /\ License' = License \cup {y}
                           /\ y.id \notin {x.id : x \in License}
                           /\ y.licenseKey = req[p].licenseKey
                           /\ y.email = req[p].email
                           /\ y.type = req[p].type
                           /\ y.valid /\ y.deviceId = <<>> /\ y.lastUsed = NoDate
                ELSE License' = License]_vars

\* an Issue for the key of a bound license was answered 409
C9_Witness ==
    \E p \in Procs :
       /\ resp[p] = Json("generate", 409, FALSE, "License already exists")
       /\ \E x \in License : x.deviceId # <<>> /\ x.lastUsed # NoDate

\* ---- C11 ----
RevokedOk == Json("revoke", 200, TRUE, "License revoked successfully")

AlreadyRevoked == Json("revoke", 400, FALSE, "License is already revoked")

RevokeNotFound == Json("revoke", 404, FALSE, "License not found")

\* the step receives a Revoke request in slot p
IsRevokeFind(p) ==
    /\ pc[p] = "idle"
    /\ resp'[p].op = "revoke" \/ req'[p].op = "revoke"

\* C11: with the requests one after the other, a Revoke for a key without a
\* record is answered 404 and one for a record with valid = false 400
\* 'already revoked', both without a write; a Revoke for a record with
\* valid = true sends $set valid = false and nothing else, and is answered
\* with success when that update is applied, the bound devices and lastUsed
\* being as they were; no other Revoke is answered with success
C11_RevokeOnlyValid ==
    [][/\ \A p \in Procs : IsRevokeFind(p) =>
             \A k \in Keys :
                RevokeFind(p, k)
                => /\ License' = License
                   /\ ByKey(k) = {}
                      => resp'[p] = RevokeNotFound /\ pc'[p] = "idle" /\ call'[p] = Null
                   /\ \A x \in ByKey(k) :
                         IF x.valid
                         THEN pc'[p] = "save" /\ RevokingUpdate(call'[p], x.id)
                         ELSE /\ resp'[p] = AlreadyRevoked
                              /\ pc'[p] = "idle" /\ call'[p] = Null
       /\ \A p \in Procs :
             pc[p] = "save" /\ req[p].op = "revoke" /\ pc'[p] = "idle"
             => IF resp'[p].status # 500
                THEN /\ resp'[p] = RevokedOk
                     /\ SameRecords
                     /\ \E x \in ById(call[p].id) : x.valid
                     /\ \A x \in License :
                           ByIdNext(x.id) = {IF x.id = call[p].id
                                             THEN [x EXCEPT !.valid = FALSE] ELSE x}
                ELSE License' = License
       /\ \A p \in Procs :
             resp'[p] = RevokedOk /\ resp[p] # RevokedOk
             => pc[p] = "save" /\ req[p].op = "revoke"]_vars

\* a Revoke succeeded on a bound license, and the Revoke after it was
\* answered 'already revoked'
C11_Witness ==
    \E p, q \in Procs :
       /\ resp[p] = RevokedOk
       /\ resp[q] = AlreadyRevoked
       /\ \E x \in License : ~x.valid /\ x.deviceId # <<>> /\ x.lastUsed # NoDate

\* ---- C12 ----
DeletedOk == Json("delete", 200, TRUE, "License deleted successfully")

DeleteNotFound == Json("delete", 404, FALSE, "License not found")

ReactivateNotFound == Json("reactivate", 404, FALSE, "License not found")

Created == Json("generate", 200, TRUE, "License created")

\* the step receives a request of operation o in slot p
IsFind(p, o) ==
    /\ pc[p] = "idle"
    /\ resp'[p].op = o \/ req'[p].op = o

\* C12: a Delete for a key with a record removes that record and only it and
\* is answered with success, one for a key without a record is answered 404
\* and changes nothing, and a record disappears in no other step; while the
\* key has no record, Validate is answered 'Invalid license' and Revoke and
\* Reactivate 404, none sending a write, and an Issue sends an insert whose
\* record, once stored, is new (a new identity), valid, with no bound device
\* and lastUsed unset
C12_DeleteThenUnknown ==
    [][/\ \A p \in Procs : IsFind(p, "delete") =>
             \A k \in Keys :
                Delete(p, k)
                => IF ByKey(k) = {}
                   THEN resp'[p] = DeleteNotFound /\ License' = License
                   ELSE /\ resp'[p] = DeletedOk
                        /\ License' = License \ ByKey(k)
                        /\ \A y \in License' : y.licenseKey # k
       /\ \A x \in License :
             ByIdNext(x.id) = {}
             => \E p \in Procs : Delete(p, x.licenseKey) /\ resp'[p] = DeletedOk
       /\ \A p \in Procs, k \in Keys :
             ByKey(k) = {} =>
               /\ IsFind(p, "validate") =>
                     \A d \in Devices, ty \in QueryTypes :
                        ValidateFind(p, k, d, ty)
                        => resp'[p] = InvalidLicense /\ call'[p] = Null /\ License' = License
               /\ IsFind(p, "revoke") /\ RevokeFind(p, k)
                     => resp'[p] = RevokeNotFound /\ call'[p] = Null /\ License' = License
               /\ IsFind(p, "reactivate") =>
                     \A r \in BOOLEAN :
                        ReactivateFind(p, k, r)
                        => resp'[p] = ReactivateNotFound /\ call'[p] = Null /\ License' = License
               /\ IsFind(p, "generate") =>
                     \A e \in Emails, ty \in QueryTypes :
                        GenerateFind(p, e, k, ty)
                        => /\ pc'[p] = "save"
                           /\ call'[p] = Insert(licenseSchema(k, ty, e))
                           /\ License' = License
       /\ \A p \in Procs :
             /\ pc[p] = "save" /\ req[p].op = "generate" /\ pc'[p] = "idle"
             /\ resp'[p].status # 500
             => /\ resp'[p] = Created
                /\ License' = License \cup
                      {[licenseSchema(req[p].licenseKey, req[p].type, req[p].email)
                           EXCEPT !.id = nextId]}
                /\ \A x \in License : x.id < nextId]_vars

\* a bound license was deleted and its key issued again: the record stored
\* now is the second one, valid and never used
C12_Witness ==
    \E p, q \in Procs :
       /\ resp[p] = DeletedOk
       /\ resp[q] = Created
       /\ License # {}
       /\ \A x \in License : x.id = 2 /\ x.valid /\ x.deviceId = <<>> /\ x.lastUsed = NoDate

\* ---- C13 ----
\* every entry of the list a is still in the list b, at its place
Keeps(a, b) == Len(a) <= Len(b) /\ \A i \in 1..Len(a) : b[i] = a[i]

\* the step is the save of a Reactivate request with resetDevices for the
\* record i
IsResettingSave(i) ==
    \E p \in Procs : /\ pc[p] = "save"
                     /\ req[p].op = "reactivate"
                     /\ req[p].resetDevices
                     /\ call[p].id = i
                     /\ pc'[p] = "idle"

\* C13: under every interleaving, a stored record that stays stored loses a
\* bound device only in the save of a Reactivate with resetDevices; a
\* Reactivate without resetDevices is accepted whether the record is valid or
\* not, writes valid = true when the record it read was not valid and nothing
\* else, and its save is answered with success and leaves every record's
\* bound devices as they were
C13_OnlyResetRemovesDevices ==
    [][/\ \A x \in License : \A y \in ByIdNext(x.id) :
             ~Keeps(x.deviceId, y.deviceId) => IsResettingSave(x.id)
       /\ \A p \in Procs : IsFind(p, "reactivate") =>
             \A k \in Keys :
                ReactivateFind(p, k, FALSE)
                => /\ License' = License
                   /\ \A x \in ByKey(k) :
                         /\ pc'[p] = "save"
                         /\ call'[p].id = x.id
                         /\ call'[p].valid = IF x.valid THEN <<>> ELSE <<TRUE>>
                         /\ call'[p].deviceId = <<>> /\ call'[p].push = <<>>
                         /\ call'[p].lastUsed = <<>> /\ ~call'[p].inc
       /\ \A p \in Procs :
             /\ pc[p] = "save" /\ req[p].op = "reactivate" /\ ~req[p].resetDevices
             /\ pc'[p] = "idle" /\ resp'[p].status # 500
             => /\ resp'[p] = Reactivated
                /\ SameRecords
                /\ \A x \in License :
                      ByIdNext(x.id) =
                         {IF x.id = call[p].id /\ call[p].valid # <<>>
                          THEN [x EXCEPT !.valid = TRUE] ELSE x}]_vars

\* a Reactivate without resetDevices was accepted on a revoked license that
\* is now valid with its device still bound
C13_Witness ==
    \E p, q \in Procs :
       /\ resp[p] = Reactivated
       /\ resp[q] = RevokedOk
       /\ \E x \in License : x.valid /\ x.version = 1 /\ Len(x.deviceId) = 1

\* ---- C14 ----
\* the step is the save of a Validate request for the record i, answered
\* with success
IsValidatedSave(p, i) ==
    /\ pc[p] = "save"
    /\ req[p].op = "validate"
    /\ call[p].id = i
    /\ pc'[p] = "idle"
    /\ resp'[p] = Validated

\* lastUsed of a stored record changes only in the save of a Validate that
\* is answered with success, and a record is stored with lastUsed unset
LastUsedOnlyByValidated ==
    /\ \A x \in License : \A y \in ByIdNext(x.id) :
          y.lastUsed # x.lastUsed => \E p \in Procs : IsValidatedSave(p, x.id)
    /\ \A y \in License' :
          ById(y.id) = {} => y.lastUsed = NoDate

\* the instant of a Validate is not before its arrival nor after its answer,
\* and once it is answered with success lastUsed of its record is that
\* instant
LastUsedIsRequestTime ==
    /\ \A p \in Procs :
          pc[p] = "idle" /\ pc'[p] = "save" /\ req'[p].op = "validate"
          => req'[p].at >= now
    /\ \A p \in Procs : \A x \in License :
          IsValidatedSave(p, x.id)
          => req[p].at <= now /\ \A y \in ByIdNext(x.id) : y.lastUsed = req[p].at

\* lastUsed of a stored record never decreases
LastUsedNeverDecreases ==
    \A x \in License : \A y \in ByIdNext(x.id) : y.lastUsed >= x.lastUsed

\* C14: lastUsed is unset when the record is stored and is written only by a
\* Validate that is answered with success; every such Validate sets it to
\* the instant of the request, so that it never decreases
C14_LastUsedOnlyBySuccess ==
    [][/\ LastUsedOnlyByValidated
       /\ LastUsedIsRequestTime
       /\ LastUsedNeverDecreases]_vars

\* ---- C15 ----
AlreadyExists == Json("generate", 409, FALSE, "License already exists")

\* C15: under every interleaving, a record that is stored before and after
\* a step has the same licenseKey, email and type after it, and an Issue
\* that is not answered with success (a duplicate) changes no record
C15_IdentityIsFixed ==
    [][/\ \A x \in License : \A y \in ByIdNext(x.id) :
             y.licenseKey = x.licenseKey /\ y.email = x.email /\ y.type = x.type
       /\ \A p \in Procs :
             resp'[p].op = "generate" /\ resp'[p] # resp[p] /\ ~resp'[p].success
             => License' = License]_vars

\* a license issued without a type has been revoked, and a second Issue of
\* its key was answered 409
C15_Witness ==
    \E p \in Procs :
       /\ resp[p] = AlreadyExists
       /\ \E x \in License : x.type = NoType /\ ~x.valid

\* ---- C16 ----
\* the step ends a request of slot p
Answers(p) == pc'[p] = "idle" /\ (pc[p] # "idle" \/ resp'[p] # resp[p])

\* C16: in every operation, a store call that fails is answered 500 in that
\* step and no call is sent again; the step that answers 500 changes no
\* record, and neither does any lookup or count of the request before it; a
\* request has no answer while it awaits a call, its answer ends it, and
\* every request that awaits a call is eventually answered
C16_StoreFailureIsAnswered ==
    /\ [][\A p \in Procs :
             /\ pc[p] = "idle" /\ resp'[p].op # "none" /\ FindError(p, resp'[p].op)
                   => /\ resp'[p].status = 500
                      /\ pc'[p] = "idle" /\ call'[p] = Null
             /\ pc[p] # "idle" /\ pc'[p] = "idle" /\ (SaveError(p) \/ CountError(p))
                   => /\ resp'[p].status = 500 /\ resp'[p].op = req[p].op
                      /\ call'[p] = Null
             /\ Answers(p) /\ resp'[p].status = 500 => License' = License
             /\ pc'[p] # "idle" /\ pc'[p] # pc[p] => License' = License
             /\ pc[p] # "idle" => resp[p] = NoResp
             /\ pc[p] # "idle" /\ pc'[p] = "idle"
                   => /\ resp'[p].op = req[p].op /\ resp'[p].status # 0
                      /\ req'[p] = NoReq /\ call'[p] = Null]_vars
    /\ \A p \in Procs : (pc[p] # "idle") ~> (pc[p] = "idle")

\* the second count of a Summarize and the save of a binding Validate were
\* both rejected: both requests were answered 500 and the license is still
\* unbound
C16_Witness ==
    \E p, q \in Procs :
       /\ resp[p] = Json("summary", 500, FALSE, "Error generating summary")
       /\ resp[q] = Json("validate", 500, FALSE, "Server error")
       /\ \E x \in License : x.valid /\ x.deviceId = <<>>

\* ---- C17 ----
Mismatch403 == Json("validate", 403, FALSE, "License type mismatch")

\* C17: a Validate whose lookup finds a record with valid = false is
\* answered 'Invalid license', whatever its type; one that finds a valid
\* record of another type is answered 'License type mismatch' in that step,
\* whatever its device, sends no write and changes no record; one that finds
\* a valid record of its type goes on to the device check and saves
C17_ChecksInOrder ==
    [][\A p \in Procs : IsFind(p, "validate") =>
          \A k \in Keys, d \in Devices, ty \in QueryTypes :
             ValidateFind(p, k, d, ty)
             => \A x \in ByKey(k) :
                   /\ ~x.valid => resp'[p] = InvalidLicense
                   /\ x.valid /\ x.type # QueryType(ty)
                      => /\ resp'[p] = Mismatch403
                         /\ pc'[p] = "idle"
                         /\ call'[p] = Null
                         /\ License' = License
                   /\ x.valid /\ x.type = QueryType(ty)
                      => /\ pc'[p] = IF x.deviceId # <<>> /\ ~Includes(x.deviceId, d)
                                     THEN "saveRevoked" ELSE "save"
                         /\ call'[p].id = x.id]_vars

\* a Validate was rejected for its type, and one was answered 'Invalid
\* license' on the license, revoked with its device bound
C17_Witness ==
    \E p, q \in Procs :
       /\ resp[p] = Mismatch403
       /\ resp[q] = InvalidLicense
       /\ \E x \in License : ~x.valid /\ Len(x.deviceId) = 1 /\ x.lastUsed # NoDate

\* ---- C18 ----
\* C18: with the requests one after the other, every stored record has at
\* most one bound device, whether it is valid or not
C18_AtMostOneDevice ==
    \A d \in License : Len(d.deviceId) <= 1

\* a license bound to a device was revoked by a Validate from another
\* device, reactivated with its device kept, and revoked again by a Validate
\* from another device: it still has one bound device
C18_Witness ==
    \E p, q \in Procs :
       /\ resp[p] = Reactivated
       /\ resp[q] = Revoked403
       /\ \E x \in License : ~x.valid /\ Len(x.deviceId) = 1 /\ x.version = 1

\* ---- C19 ----
\* slot p awaits the save of a document it loaded
SavesLoaded(p) ==
    /\ pc[p] \in {"save", "saveRevoked"}
    /\ req[p].op \in {"validate", "revoke", "reactivate"}

\* C19: under every interleaving, the save of a Validate, Revoke or
\* Reactivate whose record has been deleted since the lookup changes no
\* record; a record comes into the store only by the insert of an Issue
\* answered with success, under an identity that no record had before
C19_DeletedStaysDeleted ==
    [][/\ \A p \in Procs :
             SavesLoaded(p) /\ pc'[p] = "idle" /\ ById(call[p].id) = {}
             => License' = License
       /\ \A y \in License' :
             ById(y.id) = {}
             => /\ y.id = nextId
                /\ \A x \in License : x.id < nextId
                /\ \E p \in Procs : /\ pc[p] = "save" /\ req[p].op = "generate"
                                     /\ resp'[p] = Created]_vars

\* a Delete removed the record that a Validate had looked up and is about to
\* save, and the key has no record
C19_Witness ==
    \E p, q \in Procs :
       /\ SavesLoaded(p)
       /\ req[p].op = "validate"
       /\ call[p].id = 1
       /\ resp[q] = DeletedOk
       /\ License = {}

\* ---- C20 ----
\* C20: with no write between the counts of a Summarize, its answer has
\* totalLicenses = activeLicenses + revokedLicenses, activeLicenses the
\* number of stored records with valid = true, revokedLicenses the number
\* with valid = false and totalLicenses the number of stored records, and no
\* step of a Summarize changes a record
C20_SummaryAddsUp ==
    [][\A p \in Procs :
          /\ pc'[p] \in {"countActive", "countRevoked"} /\ pc'[p] # pc[p]
                => License' = License
          /\ pc[p] = "countRevoked" /\ pc'[p] = "idle"
                => /\ License' = License
                   /\ resp'[p].status = 200
                   /\ resp'[p].totalLicenses =
                         resp'[p].activeLicenses + resp'[p].revokedLicenses
                   /\ resp'[p].totalLicenses = Cardinality(License)
                   /\ resp'[p].activeLicenses = Cardinality({d \in License : d.valid})
                   /\ resp'[p].revokedLicenses = Cardinality({d \in License : ~d.valid})]_vars

\* a Summarize counted two licenses, one valid and one revoked
C20_Witness ==
    \E p \in Procs : resp[p] = Summary(2, 1, 1)

====
